---- MODULE Spec2Model ----
(***************************************************************************)
(* podman_deploy (src/src/main.rs): a sequential driver of the podman CLI. *)
(* One process invocation runs one mode (setup, upgrade) over a loaded     *)
(* configuration document; every external command is one step whose exit   *)
(* status is chosen by the environment.  Invocations follow one another on *)
(* the same host, so the runtime, the filesystem and the stored document   *)
(* persist from one invocation to the next.                                *)
(*                                                                         *)
(* Strings the program converts (images, inspect output, paths, mount      *)
(* specs) are sequences of tokens; names that are only compared are        *)
(* TLA+ strings.                                                           *)
(***************************************************************************)
EXTENDS Integers, Sequences, FiniteSets, TLC

\* ------------------------------------------------------------------ bounds

\* Number of image tags the registry/runtime knows: images are app:1 .. app:NumTags.
NumTags == 2

\* Longest list of mounts of the documents that path materialization is run on.
MaxMounts == 2

\* Longest command line (words after the program name) given to main.
MaxArgs == 5

\* ----------------------------------------------------------------- strings

Whitespace == {" ", "\n"}

RECURSIVE TrimStart(_)
TrimStart(s) ==
  IF Len(s) > 0 /\ Head(s) \in Whitespace THEN TrimStart(Tail(s)) ELSE s

RECURSIVE TrimEnd(_)
TrimEnd(s) ==
  IF Len(s) > 0 /\ s[Len(s)] \in Whitespace
  THEN TrimEnd(SubSeq(s, 1, Len(s) - 1))
  ELSE s

\* str::trim: leading and trailing whitespace removed.
Trim(s) == TrimEnd(TrimStart(s))

Tag(n) == <<"app", ":", ToString(n)>>

Images == {Tag(n) : n \in 1..NumTags}

\* Option<String>; val is meaningful only when some holds.
None == [some |-> FALSE, val |-> ""]

Some(s) == [some |-> TRUE, val |-> s]

Contains(s, tok) == \E x \in 1..Len(s) : s[x] = tok

EndsWith(s, suf) ==
  Len(s) >= Len(suf) /\ SubSeq(s, Len(s) - Len(suf) + 1, Len(s)) = suf

RECURSIVE IndexFrom(_, _, _)
IndexFrom(s, tok, x) ==
  IF x > Len(s) THEN 0 ELSE IF s[x] = tok THEN x ELSE IndexFrom(s, tok, x + 1)

\* str::split_once(':'): the text before and after the first ':'.
split_once(s) ==
  IF IndexFrom(s, ":", 1) = 0
  THEN [some |-> FALSE, local |-> <<>>, container |-> <<>>]
  ELSE [some |-> TRUE,
        local |-> SubSeq(s, 1, IndexFrom(s, ":", 1) - 1),
        container |-> SubSeq(s, IndexFrom(s, ":", 1) + 1, Len(s))]

FileExtensions == {"conf", "log", "txt", "json", "yaml", "yml"}

\* is_file without the list of extensions.
is_file_AnyDot(local_path) == Contains(local_path, ".")

\* create_mount_paths' is_file.
is_file(local_path) ==
  Contains(local_path, ".") /\ \E e \in FileExtensions : EndsWith(local_path, <<".", e>>)

RECURSIVE LastIndex(_, _, _)
LastIndex(s, tok, x) ==
  IF x = 0 THEN 0 ELSE IF s[x] = tok THEN x ELSE LastIndex(s, tok, x - 1)

Root == <<"/">>

\* Path::parent of an absolute path: the path without its last component.
Parent(p) ==
  IF LastIndex(p, "/", Len(p)) <= 1 THEN Root
  ELSE SubSeq(p, 1, LastIndex(p, "/", Len(p)) - 1)

\* The path and its ancestors below the root: what create_dir_all(p) makes exist.
Prefixes(p) ==
  {SubSeq(p, 1, n) : n \in {x \in 2..Len(p) : p[x] # "/" /\ (x = Len(p) \/ p[x + 1] = "/")}}

\* --------------------------------------------------------------- documents

MkContainer(n, img, ms, ps) == [name |-> n, image |-> img, mounts |-> ms, ports |-> ps]

MkPod(n, cs) == [name |-> n, containers |-> cs]

DataPath == <<"/", "srv">>

MountConf == <<"/", "cfg", "/", "app", ".", "conf", ":", "/", "etc", "/", "app", ".", "conf">>

MountDir == <<"/", "data", ":", "/", "var">>

\* "rel:/r:ro": a local segment without a leading '/', and a second ':'.
MountRel == <<"rel", ":", "/", "r", ":", "ro">>

\* "/x.conf": a spec without ':'.
MountBare == <<"/", "x", ".", "conf">>

\* A mount of a file named f with extension e.
FileMount(e) == <<"/", "f", ".", e, ":", "/", "f">>

\* Mount specs for path materialization: the two above, a file of every listed
\* extension, a relative one, local paths that have a dot but no listed extension (v1.2, f.ini),
\* that end in the letters of an extension without the dot before them
\* (a.d/xconf), that have the extension in an inner component
\* (cfg/app.conf/sub), and a spec without ':'.
MountSet ==
  {MountConf, MountDir}
    \cup {FileMount(e) : e \in FileExtensions}
    \cup {<<"/", "v1", ".", "2", ":", "/", "v">>,
          <<"/", "f", ".", "ini", ":", "/", "f">>,
          <<"/", "a", ".", "d", "/", "x", "conf", ":", "/", "x">>,
          <<"/", "cfg", "/", "app", ".", "conf", "/", "sub", ":", "/", "s">>,
          MountRel,
          MountBare}

\* The lists of at most n mounts.
MountLists(n) == UNION {[1..m -> MountSet] : m \in 0..n}

\* A document whose one container has the mounts ms.
MountDoc(ms) ==
  [data_path |-> DataPath,
   private_registry |-> None,
   registry_username |-> None,
   registry_password |-> None,
   pods |-> << MkPod("p1", << MkContainer("a", Tag(1), ms, <<>>) >>) >>]

MountDocs == {MountDoc(ms) : ms \in MountLists(MaxMounts)}

\* The port specs ("host:container") the documents declare.
PortSpecs == {"80:80", "81:81"}

\* One pod, two containers sharing one image.
DocA ==
  [data_path |-> DataPath,
   private_registry |-> Some("reg"),
   registry_username |-> Some("user"),
   registry_password |-> Some("pw"),
   pods |-> << MkPod("p1", << MkContainer("a", Tag(2), <<MountConf>>, <<"80:80">>),
                              MkContainer("b", Tag(2), <<MountDir>>, <<"81:81", "80:80">>) >>) >>]

\* Two pods holding a container of the same name (names are unique within a pod only).
DocB ==
  [data_path |-> DataPath,
   private_registry |-> Some("reg"),
   registry_username |-> Some("user"),
   registry_password |-> None,
   pods |-> << MkPod("p1", << MkContainer("a", Tag(1), <<MountRel>>, <<"80:80", "80:80">>) >>),
               MkPod("p2", << MkContainer("a", Tag(2), <<MountDir, MountBare>>, <<>>) >>) >>]

\* DocA's pod with its containers and their ports declared in the other order, and
\* credentials without a registry.
DocC ==
  [data_path |-> DataPath,
   private_registry |-> None,
   registry_username |-> Some("user"),
   registry_password |-> Some("pw"),
   pods |-> << MkPod("p1", << MkContainer("b", Tag(2), <<MountDir>>, <<"80:80", "81:81">>),
                              MkContainer("a", Tag(2), <<MountConf>>, <<"80:80">>) >>) >>]

\* No pods; a registry and a password without a username.
DocD ==
  [data_path |-> DataPath,
   private_registry |-> Some("reg"),
   registry_username |-> None,
   registry_password |-> Some("pw"),
   pods |-> << >>]

Docs == {DocA, DocB, DocC, DocD}

PodNames == {"p1", "p2"}

ContainerNames == {"a", "b"}

\* The names a command line gives: those of the documents and one that none holds.
Names == ContainerNames \cup {"zz"}

NoTarget == "-"

\* The (pod, container) pairs in the order of the nested loops
\* `for pod in &config.pods { for container in &pod.containers {..} }`.
RECURSIVE FlatFrom(_, _)
FlatFrom(pods, i) ==
  IF i > Len(pods) THEN <<>>
  ELSE [j \in 1..Len(pods[i].containers) |->
          [pod |-> pods[i].name, container |-> pods[i].containers[j]]]
       \o FlatFrom(pods, i + 1)

Flat(d) == FlatFrom(d.pods, 1)

\* The mount specs in the order of create_mount_paths' three nested loops.
RECURSIVE MountsFrom(_, _)
MountsFrom(flat, x) ==
  IF x > Len(flat) THEN <<>> ELSE flat[x].container.mounts \o MountsFrom(flat, x + 1)

FlatMounts(d) == MountsFrom(Flat(d), 1)

\* all_ports fed by the first container only.
all_ports_FirstContainer(pod) ==
  IF Len(pod.containers) = 0 THEN {}
  ELSE {pod.containers[1].ports[y] : y \in 1..Len(pod.containers[1].ports)}

\* create_pod's all_ports: every port of every container of the pod, in a HashSet.
all_ports(pod) ==
  UNION {{pod.containers[x].ports[y] : y \in 1..Len(pod.containers[x].ports)} :
           x \in 1..Len(pod.containers)}

\* The orders in which a `for port in all_ports` loop can visit a HashSet: every
\* element once, in an order the program does not choose.
IterationOrders(set) ==
  {f \in [1..Cardinality(set) -> set] : \A x, y \in 1..Cardinality(set) : x # y => f[x] # f[y]}

\* create_pod's port_args without the "-p" before each port: the ports published
\* by `podman pod create`, in the order of the command line.
port_args(pod) == IterationOrders(all_ports(pod))

\* ---------------------------------------------------------------- outcomes

\* How an external command ends for the program: "ok" is exit status 0, "fail" a
\* non-zero exit status, "ioerr" a process that could not be spawned
\* (Command::status() returns Err).  Where the code treats the last two alike (both
\* false, both None or both Err) "fail" stands for either.
Res == {"ok", "fail"}

\* pull_images, stop_containers_and_pods: a non-zero exit is a warning, a failed
\* spawn is returned by `?`.
SpawnRes == {"ok", "fail", "ioerr"}

\* `podman ... exists`: exit 0 only if the object exists.
QueryRes(present) == IF present THEN Res ELSE {"fail"}

\* A mutating command exits 0 only when the runtime is able to do it.
CmdRes(possible) == IF possible THEN Res ELSE {"fail"}

LoopRes(possible) == IF possible THEN SpawnRes ELSE {"fail", "ioerr"}

\* A filesystem operation succeeds or returns an io::Error.
FsRes(possible) == IF possible THEN {"ok", "err"} ELSE {"err"}

OSTypes == {"Ubuntu", "Debian", "Fedora", "RedHat", "ArchLinux", "Unknown"}

Absent == [present |-> FALSE, image |-> <<>>, pod |-> ""]

Present(img, p) == [present |-> TRUE, image |-> img, pod |-> p]

\* One external call of the invocation: the command, the pod and the name it is
\* about, its further argument (or what it printed) and how it ended.
Call(o, p, n, a, r) ==
  [op |-> o, pod |-> p, name |-> n, arg |-> a, res |-> r, vols |-> <<>>]

\* create_container_in_pod passing every mount spec as it is.
mount_args_Unprefixed(data_path, container) == container.mounts

\* create_container_in_pod's `-v` arguments: format!("{}{}:{}", data_path,
\* host_path, container_path) for a spec with ':', the spec itself for one without.
mount_args(data_path, container) ==
  [y \in 1..Len(container.mounts) |->
     IF split_once(container.mounts[y]).some
     THEN data_path \o split_once(container.mounts[y]).local
            \o <<":">> \o split_once(container.mounts[y]).container
     ELSE container.mounts[y]]

\* `podman run -d --pod <p> --name <name> -v <mount>.. <image>` ending with r.
RunCall(d, p, c, r) ==
  [Call("run", p, c.name, c.image, r) EXCEPT !.vols = mount_args(d.data_path, c)]

\* ------------------------------------------------------------------- state

VARIABLES
  doc,                 \* the configuration document's read-only fields
  file,                \* the stored document: [ok, installed]
  is_podman_installed, \* config.is_podman_installed of the loaded Config
  rt_pods,             \* pods that exist at the runtime
  rt_containers,       \* container name -> Absent or Present(image, pod)
  fs,                  \* the host's files and directories: a set of [path, kind]
  mode,                \* mode of the running invocation
  target,              \* its optional trailing argument
  os_type,             \* what detect_os returned, "" outside install_podman
  pc,                  \* position of the invocation
  i,                   \* index of the current pod in doc.pods
  j,                   \* index of the current container in its pod, or of the mount
  k,                   \* index of the current (pod, container) pair in Flat(doc)
  needs,               \* what needs_upgrade returned for the current container
  log,                 \* external calls issued by the invocation, in order
  exit,                \* exit status of the invocation, -1 while it runs
  argv,                \* the command line of the invocation after the program name
  config_found,        \* whether find_config_file finds a file for the invocation
  usage                \* whether the invocation has printed the usage

vars == <<doc, file, is_podman_installed, rt_pods, rt_containers, fs, mode, target,
          os_type, pc, i, j, k, needs, log, exit, argv, config_found, usage>>

\* What an invocation finds on the host and leaves there.
host == <<file, rt_pods, rt_containers, fs>>

\* What main fixes before the mode runs.
args == <<doc, mode, target, argv, config_found, usage>>

Loc(p, a, b, c) == [pc |-> p, i |-> a, j |-> b, k |-> c, exit |-> -1]

\* main's `match result`: Ok ends with status 0, Err with status 1.
End(code) == [pc |-> "done", i |-> 0, j |-> 0, k |-> 0, exit |-> code]

Goto(l) == pc' = l.pc /\ i' = l.i /\ j' = l.j /\ k' = l.k /\ exit' = l.exit

\* A failed call followed by the next step all the same.
Try_Continue(r, next) == next

\* The `?` after a call that maps a non-zero exit to Err: go on only after Ok.
Try(r, next) == IF r = "ok" THEN next ELSE End(1)

\* A loop that returns Err on a non-zero exit as well.
Tolerate_Abort(r, next) == IF r = "ok" THEN next ELSE End(1)

\* `.status()?` followed by a warning on a non-zero exit: only a failed spawn is Err.
Tolerate(r, next) == IF r = "ioerr" THEN End(1) ELSE next

\* ------------------------------------------------------------- filesystem

Dir(p) == [path |-> p, kind |-> "dir"]

\* An empty file.
File(p) == [path |-> p, kind |-> "file"]

\* A file with content.
Data(p) == [path |-> p, kind |-> "data"]

\* Path::exists
Exists(p) == p = Root \/ Dir(p) \in fs \/ File(p) \in fs \/ Data(p) \in fs

\* fs::create_dir_all(p) can succeed when no component of p is a file.
CanCreateDirAll(p) == \A q \in Prefixes(p) : File(q) \notin fs /\ Data(q) \notin fs

CreateDirAll(f, p) == f \cup {Dir(q) : q \in Prefixes(p)}

\* fs::write(p, "") can succeed when p's parent is a directory and p is not one.
CanWrite(p) == (Parent(p) = Root \/ Dir(Parent(p)) \in fs) /\ Dir(p) \notin fs

\* fs::write(p, ""): p is created empty, or truncated if it is a file already.
WriteEmpty(f, p) == (f \ {Data(p)}) \cup {File(p)}

\* ------------------------------------------------------------------- Init

Init ==
  /\ doc \in Docs
  /\ file \in {[ok |-> TRUE, installed |-> b] : b \in BOOLEAN}
  /\ is_podman_installed = FALSE
  /\ rt_pods \in SUBSET PodNames
  /\ rt_containers \in [ContainerNames -> {Absent} \cup {Present(t, p) : t \in Images, p \in PodNames}]
  /\ \A n \in ContainerNames :
       rt_containers[n].present =>
         /\ rt_containers[n].pod \in rt_pods
         /\ \E x \in 1..Len(Flat(doc)) :
              Flat(doc)[x].container.name = n /\ Flat(doc)[x].pod = rt_containers[n].pod
  /\ fs = {}
  /\ mode = "none"
  /\ target = NoTarget
  /\ os_type = ""
  /\ pc = "idle"
  /\ i = 0
  /\ j = 0
  /\ k = 0
  /\ needs = FALSE
  /\ log = <<>>
  /\ exit = -1
  /\ argv = <<>>
  /\ config_found = TRUE
  /\ usage = FALSE

\* A host for path materialization alone: nothing under the root, the data root
\* only, or the data root with a configuration file that has content.
InitMounts ==
  /\ doc \in MountDocs
  /\ file = [ok |-> TRUE, installed |-> TRUE]
  /\ is_podman_installed = TRUE
  /\ rt_pods = {}
  /\ rt_containers = [n \in ContainerNames |-> Absent]
  /\ fs \in {{},
             {Dir(DataPath)},
             {Dir(DataPath), Dir(DataPath \o <<"/", "cfg">>),
              Data(DataPath \o <<"/", "cfg", "/", "app", ".", "conf">>)}}
  /\ mode = "setup"
  /\ target = NoTarget
  /\ os_type = ""
  /\ pc = "data_path"
  /\ i = 0
  /\ j = 0
  /\ k = 0
  /\ needs = FALSE
  /\ log = <<>>
  /\ exit = -1
  /\ argv = <<>>
  /\ config_found = TRUE
  /\ usage = FALSE

\* One host for the reading of command lines: DocB stored, pod p1 and its
\* container at the runtime.
InitMain ==
  /\ doc = DocB
  /\ file = [ok |-> TRUE, installed |-> TRUE]
  /\ is_podman_installed = FALSE
  /\ rt_pods = {"p1"}
  /\ rt_containers = [n \in ContainerNames |-> IF n = "a" THEN Present(Tag(1), "p1") ELSE Absent]
  /\ fs = {}
  /\ mode = "none"
  /\ target = NoTarget
  /\ os_type = ""
  /\ pc = "idle"
  /\ i = 0
  /\ j = 0
  /\ k = 0
  /\ needs = FALSE
  /\ log = <<>>
  /\ exit = -1
  /\ argv = <<>>
  /\ config_found = TRUE
  /\ usage = FALSE

\* ------------------------------------------------------------------- main

Modes == {"setup", "upgrade", "start", "stop"}

\* main's reading of the command line av (args without args[0]): the `--config`
\* option, the bounds on args.len(), the mode and the optional name.
has_config(av) == Len(av) + 1 >= 3 /\ av[1] = "--config"

mode_arg_index(av) == IF has_config(av) THEN 3 ELSE 1

min_args(av) == IF has_config(av) THEN 4 ELSE 2

max_args(av) == IF has_config(av) THEN 5 ELSE 3

count_ok(av) == ~(Len(av) + 1 < min_args(av) \/ Len(av) + 1 > max_args(av))

mode_of(av) == av[mode_arg_index(av)]

pod_name(av) ==
  IF Len(av) + 1 > mode_arg_index(av) + 1 THEN av[mode_arg_index(av) + 1] ELSE NoTarget

\* main's outcome before any mode driver runs: whether the usage is printed, and
\* where the invocation goes (the mode driver's load_config, or exit status 1).
\* The mode is matched after find_config_file has returned a path.
Dispatch(av, found) ==
  IF ~count_ok(av) THEN [usage |-> TRUE, at |-> End(1)]
  ELSE IF ~found THEN [usage |-> FALSE, at |-> End(1)]
  ELSE IF mode_of(av) = "setup" /\ pod_name(av) # NoTarget THEN [usage |-> TRUE, at |-> End(1)]
  ELSE IF mode_of(av) \in Modes THEN [usage |-> FALSE, at |-> Loc("load", 0, 0, 0)]
  ELSE [usage |-> TRUE, at |-> End(1)]

\* main: one process invocation with command line av, on a host where
\* find_config_file finds a configuration file or not.
Main(av, found) ==
  /\ pc \in {"idle", "done"}
  /\ argv' = av
  /\ config_found' = found
  /\ mode' = (IF count_ok(av) THEN mode_of(av) ELSE "none")
  /\ target' = (IF count_ok(av) THEN pod_name(av) ELSE NoTarget)
  /\ usage' = Dispatch(av, found).usage
  /\ log' = <<>>
  /\ needs' = FALSE
  /\ os_type' = ""
  /\ is_podman_installed' = FALSE
  /\ Goto(Dispatch(av, found).at)
  /\ UNCHANGED <<doc, host>>

\* The command line `<m>` or `<m> <t>`.
CommandLine(m, t) == IF t = NoTarget THEN <<m>> ELSE <<m, t>>

\* An invocation with a mode and an optional trailing name whose configuration
\* file is found. `setup` with a trailing name prints the usage and exits 1
\* before any mode runs.
Invoke(m, t) == Main(CommandLine(m, t), TRUE)

\* load_config, the first statement of every mode driver.
LoadConfig ==
  /\ pc = "load"
  /\ is_podman_installed' = (file.ok /\ file.installed)
  /\ Goto(IF ~file.ok THEN End(1)
          ELSE IF mode = "setup" THEN Loc("check_install", 0, 0, 0)
          ELSE IF mode = "upgrade" THEN Loc("upgrade_begin", 0, 0, 0)
          ELSE IF mode = "start" THEN Loc("start_mode", 0, 0, 0)
          ELSE Loc("stop_mode", 0, 0, 0))
  /\ UNCHANGED <<args, host, os_type, needs, log>>

\* ----------------------------------------------------------- upgrade_mode

container_exists(res) == res = "ok"

get_container_current_image(res, stdout) ==
  IF res = "ok" THEN Some(Trim(stdout)) ELSE None

\* needs_upgrade with the failed inspection read as "no upgrade".
needs_upgrade_SkipUnknown(exists, current, container) ==
  exists /\ current.some /\ current.val # container.image

\* needs_upgrade taking the absence of the container for drift.
needs_upgrade_AbsentIsDrift(exists, current, container) ==
  IF ~exists THEN TRUE
  ELSE IF current.some
       THEN (IF current.val = container.image THEN FALSE ELSE TRUE)
       ELSE TRUE

needs_upgrade(exists, current, container) ==
  IF ~exists THEN FALSE
  ELSE IF current.some
       THEN (IF current.val = container.image THEN FALSE ELSE TRUE)
       ELSE TRUE

RECURSIVE FirstMatch(_, _, _)
FirstMatch(flat, t, x) ==
  IF x > Len(flat) THEN 0
  ELSE IF flat[x].container.name = t THEN x
  ELSE FirstMatch(flat, t, x + 1)

RECURSIVE LastMatch(_, _, _)
LastMatch(flat, t, x) ==
  IF x = 0 THEN 0
  ELSE IF flat[x].container.name = t THEN x
  ELSE LastMatch(flat, t, x - 1)

\* The scan without its `break`s: the last match wins.
FindTarget_Last(d, t) == LastMatch(Flat(d), t, Len(Flat(d)))

\* The scan falling back to the first container when nothing matches.
FindTarget_Default(d, t) ==
  IF FirstMatch(Flat(d), t, 1) = 0 /\ Len(Flat(d)) > 0 THEN 1 ELSE FirstMatch(Flat(d), t, 1)

\* The scan of upgrade_mode for the named container: the first match, 0 if none.
FindTarget(d, t) == FirstMatch(Flat(d), t, 1)

Cur == Flat(doc)[k]

\* Where upgrade_mode goes once container x is dealt with: a named target ends the
\* scan (break), the loop over all containers goes to the next one.
UpgradeAdvance(x) ==
  IF target = NoTarget /\ x < Len(Flat(doc))
  THEN Loc("needs_exists", 0, 0, x + 1)
  ELSE End(0)

\* Where upgrade_mode goes when upgrade_container returned r: `upgrade_container(..)?`.
UpgradeResult(r, x) == Try(r, UpgradeAdvance(x))

\* upgrade_container without its `?`s: a failed step is followed by the next one.
UpgradeStep_NoAbort(r, next, x) == next

\* A `?` inside upgrade_container: Ok goes on to the next step, Err is returned to
\* upgrade_mode.
UpgradeStep(r, next, x) == IF r = "ok" THEN next ELSE UpgradeResult(r, x)

\* upgrade_mode up to the first needs_upgrade call.
UpgradeBegin ==
  /\ pc = "upgrade_begin"
  /\ Goto(IF target # NoTarget
          THEN IF FindTarget(doc, target) = 0
               THEN End(1)
               ELSE Loc("needs_exists", 0, 0, FindTarget(doc, target))
          ELSE IF Len(Flat(doc)) = 0 THEN End(0) ELSE Loc("needs_exists", 0, 0, 1))
  /\ UNCHANGED <<args, host, is_podman_installed, os_type, needs, log>>

\* needs_upgrade, first half: `podman container exists <name>`.
NeedsExists ==
  /\ pc = "needs_exists"
  /\ \E r \in QueryRes(rt_containers[Cur.container.name].present) :
       /\ log' = Append(log, Call("container_exists", "", Cur.container.name, <<>>, r))
       /\ IF container_exists(r)
          THEN /\ UNCHANGED needs
               /\ Goto(Loc("needs_inspect", 0, 0, k))
          ELSE /\ needs' = needs_upgrade(FALSE, None, Cur.container)
               /\ Goto(UpgradeAdvance(k))
  /\ UNCHANGED <<args, host, is_podman_installed, os_type>>

\* What `podman inspect <name> --format {{.Image}}` can print and exit with.
InspectOutcomes(c) ==
  IF c.present
  THEN {[res |-> "ok", stdout |-> c.image \o <<"\n">>],
        [res |-> "fail", stdout |-> <<>>]}
  ELSE {[res |-> "fail", stdout |-> <<>>]}

\* needs_upgrade, second half: get_container_current_image and the comparison.
NeedsInspect ==
  /\ pc = "needs_inspect"
  /\ \E o \in InspectOutcomes(rt_containers[Cur.container.name]) :
       /\ log' = Append(log, Call("inspect", "", Cur.container.name, o.stdout, o.res))
       /\ needs' = needs_upgrade(TRUE, get_container_current_image(o.res, o.stdout),
                                 Cur.container)
       /\ Goto(IF needs' THEN Loc("up_pull", 0, 0, k) ELSE UpgradeAdvance(k))
  /\ UNCHANGED <<args, host, is_podman_installed, os_type>>

\* upgrade_container: pull_image(&container.image)?
UpgradePull ==
  /\ pc = "up_pull"
  /\ \E r \in Res :
       /\ log' = Append(log, Call("pull", "", "", Cur.container.image, r))
       /\ Goto(UpgradeStep(r, Loc("up_stop", 0, 0, k), k))
  /\ UNCHANGED <<args, host, is_podman_installed, os_type, needs>>

\* upgrade_container: stop_container(&container.name)?
UpgradeStop ==
  /\ pc = "up_stop"
  /\ \E r \in CmdRes(rt_containers[Cur.container.name].present) :
       /\ log' = Append(log, Call("stop", "", Cur.container.name, <<>>, r))
       /\ Goto(UpgradeStep(r, Loc("up_remove", 0, 0, k), k))
  /\ UNCHANGED <<args, host, is_podman_installed, os_type, needs>>

\* upgrade_container: remove_container(&container.name)?
UpgradeRemove ==
  /\ pc = "up_remove"
  /\ \E r \in CmdRes(rt_containers[Cur.container.name].present) :
       /\ log' = Append(log, Call("rm", "", Cur.container.name, <<>>, r))
       /\ rt_containers' = IF r = "ok"
                           THEN [rt_containers EXCEPT ![Cur.container.name] = Absent]
                           ELSE rt_containers
       /\ Goto(UpgradeStep(r, Loc("up_create", 0, 0, k), k))
  /\ UNCHANGED <<args, file, rt_pods, fs, is_podman_installed, os_type, needs>>

\* `podman run -d --pod <pod> --name <name> ... <image>` can exit 0 when the pod
\* exists and the name is free.
CanRun(p, c) == p \in rt_pods /\ ~rt_containers[c.name].present

\* The runtime after `podman run` for container c in pod p ended with r.
AfterRun(r, p, c) ==
  IF r = "ok" THEN [rt_containers EXCEPT ![c.name] = Present(c.image, p)]
  ELSE rt_containers

\* upgrade_container: create_container_in_pod(pod_name, container, data_path)?, and
\* upgrade_mode's own `?` and loop after it.
UpgradeCreate ==
  /\ pc = "up_create"
  /\ \E r \in CmdRes(CanRun(Cur.pod, Cur.container)) :
       /\ log' = Append(log, RunCall(doc, Cur.pod, Cur.container, r))
       /\ rt_containers' = AfterRun(r, Cur.pod, Cur.container)
       /\ Goto(UpgradeResult(r, k))
  /\ UNCHANGED <<args, file, rt_pods, fs, is_podman_installed, os_type, needs>>

\* ------------------------------------------------------------- setup_mode

\* Positions of setup_mode's phases; a loop that has run out goes on to the next.
AtStopPods(x) ==
  IF x <= Len(doc.pods) THEN Loc("stop_pod", x, 0, 0) ELSE End(0)

\* The stop phase without its first loop.
AtStopContainers_PodsOnly(x) == AtStopPods(1)

AtStopContainers(x) ==
  IF x <= Len(Flat(doc)) THEN Loc("stop_container", 0, 0, x) ELSE AtStopPods(1)

\* pull_images' loop ending after its first container.
AtPull_FirstOnly(x) ==
  IF x <= 1 /\ x <= Len(Flat(doc)) THEN Loc("pull", 0, 0, x) ELSE AtStopContainers(1)

\* pull_images' loop over the containers of the document.
AtPull(x) ==
  IF x <= Len(Flat(doc)) THEN Loc("pull", 0, 0, x) ELSE AtStopContainers(1)

AtPods(x) ==
  IF x <= Len(doc.pods) THEN Loc("pod_exists", x, 0, 0) ELSE AtPull(1)

\* create_pod's loop stopping after the first container.
AtCreate_FirstOnly(x, y) ==
  IF y <= 1 /\ y <= Len(doc.pods[x].containers) THEN Loc("create_container", x, y, 0)
  ELSE AtPods(x + 1)

AtCreate(x, y) ==
  IF y <= Len(doc.pods[x].containers) THEN Loc("create_container", x, y, 0)
  ELSE AtPods(x + 1)

AtRegistry == Loc("registry", 0, 0, 0)

\* create_mount_paths left out of setup_mode.
AtMount_Skip(y) == AtRegistry

AtMount(y) ==
  IF y <= Len(FlatMounts(doc)) THEN Loc("mount", 0, y, 0) ELSE AtRegistry

AtDataPath == Loc("data_path", 0, 0, 0)

\* check_and_install_podman without its early return on the loaded flag.
CheckPodman_AlwaysProbe ==
  /\ pc = "check_install"
  /\ \E r \in Res :
       /\ log' = Append(log, Call("version", "", "", <<>>, r))
       /\ Goto(IF r = "ok" THEN Loc("write_config", 0, 0, 0)
               ELSE Loc("detect_os", 0, 0, 0))
  /\ UNCHANGED <<args, host, is_podman_installed, os_type, needs>>

\* check_and_install_podman up to the result of is_podman_installed(): nothing is
\* probed when the loaded flag is set.
CheckPodman ==
  /\ pc = "check_install"
  /\ IF is_podman_installed
     THEN /\ Goto(AtDataPath)
          /\ UNCHANGED log
     ELSE \E r \in Res :
            /\ log' = Append(log, Call("version", "", "", <<>>, r))
            /\ Goto(IF r = "ok" THEN Loc("write_config", 0, 0, 0)
                    ELSE Loc("detect_os", 0, 0, 0))
  /\ UNCHANGED <<args, host, is_podman_installed, os_type, needs>>

\* install_podman returning Ok for an unknown OS.
InstallEntry_UnknownOk(os) ==
  IF os \in {"Ubuntu", "Debian"} THEN Loc("apt_update", 0, 0, 0)
  ELSE IF os = "Unknown" THEN Loc("write_config", 0, 0, 0)
  ELSE Loc("install", 0, 0, 0)

\* install_podman's first command for the detected OS, none for an unknown one.
InstallEntry(os) ==
  IF os \in {"Ubuntu", "Debian"} THEN Loc("apt_update", 0, 0, 0)
  ELSE IF os = "Unknown" THEN End(1)
  ELSE Loc("install", 0, 0, 0)

\* detect_os, and install_podman's match on its result.
DetectOS ==
  /\ pc = "detect_os"
  /\ \E os \in OSTypes :
       /\ os_type' = os
       /\ Goto(InstallEntry(os))
  /\ UNCHANGED <<args, host, is_podman_installed, needs, log>>

\* install_podman: `sudo apt update`.
AptUpdate ==
  /\ pc = "apt_update"
  /\ \E r \in Res :
       /\ log' = Append(log, Call("apt_update", "", "", <<>>, r))
       /\ Goto(Try(r, Loc("install", 0, 0, 0)))
  /\ UNCHANGED <<args, host, is_podman_installed, os_type, needs>>

\* install_podman ignoring the exit status of the install command.
InstallResult_Ignore(r) == Loc("write_config", 0, 0, 0)

\* install_podman's `if success { Ok(()) } else { Err(..) }` and the `?` of
\* check_and_install_podman on it.
InstallResult(r) == Try(r, Loc("write_config", 0, 0, 0))

\* install_podman: the package manager's install command.
\* os_type goes out of scope when install_podman returns Ok.
InstallPackage ==
  /\ pc = "install"
  /\ \E r \in Res :
       /\ log' = Append(log, Call("install", "", "", <<>>, r))
       /\ os_type' = (IF r = "ok" THEN "" ELSE os_type)
       /\ Goto(InstallResult(r))
  /\ UNCHANGED <<args, host, is_podman_installed, needs>>

\* fs::write reporting success without storing anything.
Written_Unchanged(r) == {file}

\* The stored document after fs::write ended with r: rewritten with the flag set,
\* or, on an error, as it was or cut short.
Written(r) ==
  IF r = "ok" THEN {[ok |-> TRUE, installed |-> TRUE]}
  ELSE {file, [ok |-> FALSE, installed |-> FALSE]}

\* update_config_podman_status(..)? and `config.is_podman_installed = true` after it.
WriteConfig ==
  /\ pc = "write_config"
  /\ \E r \in {"ok", "err"} :
       /\ log' = Append(log, Call("write_config", "", "", <<>>, r))
       /\ file' \in Written(r)
       /\ is_podman_installed' = (IF r = "ok" THEN TRUE ELSE is_podman_installed)
       /\ Goto(Try(r, AtDataPath))
  /\ UNCHANGED <<args, rt_pods, rt_containers, fs, os_type, needs>>

\* check_and_create_data_path(&config.data_path)?
DataPathStep ==
  /\ pc = "data_path"
  /\ IF Exists(doc.data_path)
     THEN /\ UNCHANGED <<fs, log>>
          /\ Goto(AtMount(1))
     ELSE \E r \in FsRes(CanCreateDirAll(doc.data_path)) :
            /\ log' = Append(log, Call("create_dir_all", "", "", doc.data_path, r))
            /\ fs' = IF r = "ok" THEN CreateDirAll(fs, doc.data_path) ELSE fs
            /\ Goto(Try(r, AtMount(1)))
  /\ UNCHANGED <<args, file, rt_pods, rt_containers, is_podman_installed, os_type, needs>>

\* The host path of mount spec m: format!("{}{}", config.data_path, local_path).
full_path(d, m) == d.data_path \o split_once(m).local

CurMount == FlatMounts(doc)[j]

\* create_mount_paths, one mount: a directory mount is created here, a file mount
\* gets its parent directory here and its file in MountFile. A spec without ':' is
\* passed over.
MountStep ==
  /\ pc = "mount"
  /\ LET local == split_once(CurMount).local
         path == full_path(doc, CurMount)
         made == IF is_file(local) THEN Parent(path) ELSE path
         next == IF is_file(local) THEN Loc("mount_file", 0, j, 0) ELSE AtMount(j + 1)
     IN IF ~split_once(CurMount).some
        THEN /\ UNCHANGED <<fs, log>>
             /\ Goto(AtMount(j + 1))
        ELSE IF Exists(made)
        THEN /\ UNCHANGED <<fs, log>>
             /\ Goto(next)
        ELSE \E r \in FsRes(CanCreateDirAll(made)) :
               /\ log' = Append(log, Call("create_dir_all", "", "", made, r))
               /\ fs' = IF r = "ok" THEN CreateDirAll(fs, made) ELSE fs
               /\ Goto(Try(r, next))
  /\ UNCHANGED <<args, file, rt_pods, rt_containers, is_podman_installed, os_type, needs>>

\* The file written whether or not the path exists.
Missing_Always(p) == TRUE

\* `if !path.exists()` before fs::write.
Missing(p) == ~Exists(p)

\* create_mount_paths, a file mount: the empty file is written only if the path
\* does not exist.
MountFile ==
  /\ pc = "mount_file"
  /\ LET path == full_path(doc, CurMount)
     IN IF ~Missing(path)
        THEN /\ UNCHANGED <<fs, log>>
             /\ Goto(AtMount(j + 1))
        ELSE \E r \in FsRes(CanWrite(path)) :
               /\ log' = Append(log, Call("write", "", "", path, r))
               /\ fs' = IF r = "ok" THEN WriteEmpty(fs, path) ELSE fs
               /\ Goto(Try(r, AtMount(j + 1)))
  /\ UNCHANGED <<args, file, rt_pods, rt_containers, is_podman_installed, os_type, needs>>

\* The login attempted for any configured registry.
can_login_RegistryOnly(d) == d.private_registry.some

\* configure_private_registry's two `if let`s: a registry, and both a username and
\* a password.
can_login(d) ==
  d.private_registry.some /\ (d.registry_username.some /\ d.registry_password.some)

\* login_to_registry's Err turned into Err by setup_mode as well.
LoginResult_Abort(r) == Try(r, AtPods(1))

\* setup_mode's `if let Err(e) = configure_private_registry(..)`: a warning, and on
\* to check_and_create_pods either way.
LoginResult(r) == AtPods(1)

\* configure_private_registry up to the result of is_logged_into_registry: the
\* status is asked only when the registry, the username and the password are set.
RegistryStatus ==
  /\ pc = "registry"
  /\ IF can_login(doc)
     THEN \E r \in Res :
            /\ log' = Append(log, Call("login_status", "", doc.private_registry.val, <<>>, r))
            /\ Goto(IF r = "ok" THEN AtPods(1) ELSE Loc("login", 0, 0, 0))
     ELSE /\ UNCHANGED log
          /\ Goto(AtPods(1))
  /\ UNCHANGED <<args, host, is_podman_installed, os_type, needs>>

\* login_to_registry; setup_mode turns its Err into a warning and goes on.
RegistryLogin ==
  /\ pc = "login"
  /\ \E r \in Res :
       /\ log' = Append(log, Call("login", "", doc.private_registry.val, <<>>, r))
       /\ Goto(LoginResult(r))
  /\ UNCHANGED <<args, host, is_podman_installed, os_type, needs>>

\* check_and_create_pods creating the containers of a pod that exists already.
AfterPodExists_Complete(r, x) ==
  IF r = "ok" THEN AtCreate(x, 1) ELSE Loc("create_pod", x, 0, 0)

\* check_and_create_pods' branch on pod_exists for pod x: an existing pod is left
\* as it is, create_pod is called for any other.
AfterPodExists(r, x) ==
  IF r = "ok" THEN AtPods(x + 1) ELSE Loc("create_pod", x, 0, 0)

\* check_and_create_pods: pod_exists(&pod.name) for pod i.
PodExists ==
  /\ pc = "pod_exists"
  /\ \E r \in QueryRes(doc.pods[i].name \in rt_pods) :
       /\ log' = Append(log, Call("pod_exists", doc.pods[i].name, "", <<>>, r))
       /\ Goto(AfterPodExists(r, i))
  /\ UNCHANGED <<args, host, is_podman_installed, os_type, needs>>

\* create_pod: `podman pod create --name <pod> -p <port>..`, and the `?` on it.
CreatePod ==
  /\ pc = "create_pod"
  /\ \E r \in CmdRes(doc.pods[i].name \notin rt_pods), ports \in port_args(doc.pods[i]) :
       /\ log' = Append(log, Call("pod_create", doc.pods[i].name, "", ports, r))
       /\ rt_pods' = IF r = "ok" THEN rt_pods \cup {doc.pods[i].name} ELSE rt_pods
       /\ Goto(Try(r, AtCreate(i, 1)))
  /\ UNCHANGED <<args, file, rt_containers, fs, is_podman_installed, os_type, needs>>

\* create_pod: create_container_in_pod(&pod.name, container, data_path)? for
\* container j of pod i.
CreateContainer ==
  /\ pc = "create_container"
  /\ LET p == doc.pods[i].name
         c == doc.pods[i].containers[j]
     IN \E r \in CmdRes(CanRun(p, c)) :
          /\ log' = Append(log, RunCall(doc, p, c, r))
          /\ rt_containers' = AfterRun(r, p, c)
          /\ Goto(Try(r, AtCreate(i, j + 1)))
  /\ UNCHANGED <<args, file, rt_pods, fs, is_podman_installed, os_type, needs>>

\* pull_images: `podman pull <image>` for container k; a non-zero exit is a warning.
PullImages ==
  /\ pc = "pull"
  /\ \E r \in SpawnRes :
       /\ log' = Append(log, Call("pull", "", "", Cur.container.image, r))
       /\ Goto(Tolerate(r, AtPull(k + 1)))
  /\ UNCHANGED <<args, host, is_podman_installed, os_type, needs>>

\* stop_containers_and_pods, first loop: `podman stop <name>` for container k.
StopContainers ==
  /\ pc = "stop_container"
  /\ \E r \in LoopRes(rt_containers[Cur.container.name].present) :
       /\ log' = Append(log, Call("stop", "", Cur.container.name, <<>>, r))
       /\ Goto(Tolerate(r, AtStopContainers(k + 1)))
  /\ UNCHANGED <<args, host, is_podman_installed, os_type, needs>>

\* stop_containers_and_pods, second loop: `podman pod stop <pod>` for pod i.
StopPods ==
  /\ pc = "stop_pod"
  /\ \E r \in LoopRes(doc.pods[i].name \in rt_pods) :
       /\ log' = Append(log, Call("pod_stop", doc.pods[i].name, "", <<>>, r))
       /\ Goto(Tolerate(r, AtStopPods(i + 1)))
  /\ UNCHANGED <<args, host, is_podman_installed, os_type, needs>>

\* -------------------------------------------------- start_mode, stop_mode

RECURSIVE FirstPod(_, _, _)
FirstPod(pods, t, x) ==
  IF x > Len(pods) THEN 0
  ELSE IF pods[x].name = t THEN x
  ELSE FirstPod(pods, t, x + 1)

\* The lookup falling back to the first pod when no pod has the name.
FindPod_Default(d, t) ==
  IF FirstPod(d.pods, t, 1) = 0 /\ Len(d.pods) > 0 THEN 1 ELSE FirstPod(d.pods, t, 1)

\* start_pod's and stop_pod's `config.pods.iter().find(|p| p.name == pod_name)`:
\* the index of the first pod of that name, 0 for None.
FindPod(d, t) == FirstPod(d.pods, t, 1)

\* start_all_pods' loop ending after its first pod.
AtStartAll_FirstOnly(x) ==
  IF x <= 1 /\ x <= Len(doc.pods) THEN Loc("start_all", x, 0, 0) ELSE End(0)

\* start_all_pods' loop over config.pods.
AtStartAll(x) ==
  IF x <= Len(doc.pods) THEN Loc("start_all", x, 0, 0) ELSE End(0)

\* start_mode's match on pod_name, and start_pod's lookup of the named pod.
StartMode ==
  /\ pc = "start_mode"
  /\ Goto(IF target = NoTarget THEN AtStartAll(1)
          ELSE IF FindPod(doc, target) = 0 THEN End(1)
          ELSE Loc("start_pod", FindPod(doc, target), 0, 0))
  /\ UNCHANGED <<args, host, is_podman_installed, os_type, needs, log>>

\* start_pod: `podman pod start <pod_name>`; a non-zero exit and a failed spawn are
\* both returned as Err.
StartPod ==
  /\ pc = "start_pod"
  /\ \E r \in CmdRes(target \in rt_pods) :
       /\ log' = Append(log, Call("pod_start", target, "", <<>>, r))
       /\ Goto(Try(r, End(0)))
  /\ UNCHANGED <<args, host, is_podman_installed, os_type, needs>>

\* start_all_pods: `podman pod start <pod>` for pod i; a non-zero exit is a warning.
StartAllPods ==
  /\ pc = "start_all"
  /\ \E r \in LoopRes(doc.pods[i].name \in rt_pods) :
       /\ log' = Append(log, Call("pod_start", doc.pods[i].name, "", <<>>, r))
       /\ Goto(Tolerate(r, AtStartAll(i + 1)))
  /\ UNCHANGED <<args, host, is_podman_installed, os_type, needs>>

\* stop_mode's match on pod_name, and stop_pod's lookup of the named pod.
StopMode ==
  /\ pc = "stop_mode"
  /\ Goto(IF target = NoTarget THEN AtStopContainers(1)
          ELSE IF FindPod(doc, target) = 0 THEN End(1)
          ELSE Loc("stop_named", FindPod(doc, target), 0, 0))
  /\ UNCHANGED <<args, host, is_podman_installed, os_type, needs, log>>

\* stop_pod: `podman pod stop <pod_name>`; a non-zero exit and a failed spawn are
\* both returned as Err.
StopPod ==
  /\ pc = "stop_named"
  /\ \E r \in CmdRes(target \in rt_pods) :
       /\ log' = Append(log, Call("pod_stop", target, "", <<>>, r))
       /\ Goto(Try(r, End(0)))
  /\ UNCHANGED <<args, host, is_podman_installed, os_type, needs>>

\* ------------------------------------------------------------- specification

SetupStep ==
  \/ CheckPodman
  \/ DetectOS
  \/ AptUpdate
  \/ InstallPackage
  \/ WriteConfig
  \/ DataPathStep
  \/ MountStep
  \/ MountFile
  \/ RegistryStatus
  \/ RegistryLogin
  \/ PodExists
  \/ CreatePod
  \/ CreateContainer
  \/ PullImages
  \/ StopContainers
  \/ StopPods

UpgradeSteps ==
  \/ UpgradeBegin
  \/ NeedsExists
  \/ NeedsInspect
  \/ UpgradePull
  \/ UpgradeStop
  \/ UpgradeRemove
  \/ UpgradeCreate

\* Invocations of `setup`, one after another on the same host.
NextSetup ==
  \/ \E t \in {NoTarget, "a"} : Invoke("setup", t)
  \/ LoadConfig
  \/ SetupStep

SpecSetup == Init /\ [][NextSetup]_vars

\* setup_mode reaching check_and_create_data_path in another run on the same host,
\* after the previous run's create_mount_paths returned (Ok at "registry", Err at
\* "done").
MaterializeAgain ==
  /\ pc \in {"registry", "done"}
  /\ log' = <<>>
  /\ Goto(AtDataPath)
  /\ UNCHANGED <<args, host, is_podman_installed, os_type, needs>>

\* Path materialization alone: check_and_create_data_path and create_mount_paths,
\* run again and again on the same host for one document.
NextMounts ==
  \/ MaterializeAgain
  \/ DataPathStep
  \/ MountStep
  \/ MountFile

SpecMounts == InitMounts /\ [][NextMounts]_vars

\* Invocations of `upgrade [name]`, one after another on the same host.
NextUpgrade ==
  \/ \E t \in Names \cup {NoTarget} : Invoke("upgrade", t)
  \/ LoadConfig
  \/ UpgradeSteps

SpecUpgrade == Init /\ [][NextUpgrade]_vars

\* The names a command line gives for a pod: those of the documents and one that
\* none holds.
PodArgs == PodNames \cup {"zz"}

StartSteps ==
  \/ StartMode
  \/ StartPod
  \/ StartAllPods

StopSteps ==
  \/ StopMode
  \/ StopPod
  \/ StopContainers
  \/ StopPods

\* Invocations of `start [pod]` and `stop [pod]`, one after another on the same host.
NextStartStop ==
  \/ \E m \in {"start", "stop"}, t \in PodArgs \cup {NoTarget} : Invoke(m, t)
  \/ LoadConfig
  \/ StartSteps
  \/ StopSteps

SpecStartStop == Init /\ [][NextStartStop]_vars

\* Invocations of `setup` and of `stop [pod]`: every caller of
\* stop_containers_and_pods.
NextStop ==
  \/ \E t \in {NoTarget, "a"} : Invoke("setup", t)
  \/ \E t \in PodArgs \cup {NoTarget} : Invoke("stop", t)
  \/ LoadConfig
  \/ SetupStep
  \/ StopMode
  \/ StopPod

SpecStop == Init /\ [][NextStop]_vars

\* The words of the command lines given to main: the option, three modes, a word
\* that is no mode, and a name (or path).
Words == {"--config", "setup", "start", "stop", "bogus", "p1"}

\* The command lines of at most n words.
ArgVectors(n) == UNION {[1..m -> Words] : m \in 0..n}

\* `setup` with nothing after it, with or without `--config <path>` before it:
\* the command lines that run setup_mode.
RunsSetup(av) == av = <<"setup">> \/ (Len(av) = 3 /\ av[1] = "--config" /\ av[3] = "setup")

\* One invocation with any command line that does not run setup_mode, with and
\* without a configuration file to be found. (`start` and `stop` leave the host
\* as it is, so a later invocation would find what the first one found.)
NextMain ==
  \/ pc = "idle" /\ \E av \in {v \in ArgVectors(MaxArgs) : ~RunsSetup(v)}, found \in BOOLEAN :
                      Main(av, found)
  \/ LoadConfig
  \/ StartSteps
  \/ StopSteps

SpecMain == InitMain /\ [][NextMain]_vars

\* Invocations of `setup` and of `upgrade [name]`: every caller of
\* create_container_in_pod.
NextDeploy ==
  \/ \E t \in {NoTarget, "a"} : Invoke("setup", t)
  \/ \E t \in Names \cup {NoTarget} : Invoke("upgrade", t)
  \/ LoadConfig
  \/ SetupStep
  \/ UpgradeSteps

SpecDeploy == Init /\ [][NextDeploy]_vars

\* ------------------------------------------------------------------ claims

LogIdx == 1..Len(log)

FlatIdx == 1..Len(Flat(doc))

Last == log[Len(log)]

UpgradeOps == {"pull", "stop", "rm", "run"}

\* The definitions of the document a call about container name n can be about.
Named(n) == {x \in FlatIdx : Flat(doc)[x].container.name = n}

\* The first definition named t in document order, stated without the scan.
FirstNamed(t) == CHOOSE x \in Named(t) : \A y \in Named(t) : x <= y

\* The definition that the needs_upgrade call of log entry x evaluates: the target's
\* first definition, or, without a target, the n-th one for the n-th call.
Evaluated(x) ==
  IF target # NoTarget THEN FirstNamed(target)
  ELSE Cardinality({y \in 1..x : log[y].op = "container_exists"})

\* C1: in upgrade, the calls of upgrade_container come in the order pull, stop,
\* remove, create: a pull follows the needs_upgrade inspection of a drifted
\* container and pulls its configured image, and each later step directly follows
\* the successful previous step for the same container; after a failed step
\* nothing more is issued for the container, after a successful one the next step
\* is the next call.
C1_UpgradeOrder ==
  mode = "upgrade" =>
    \A x \in LogIdx :
      /\ log[x].op = "pull" =>
           /\ x > 1 /\ log[x - 1].op = "inspect"
           /\ log[x].arg = Flat(doc)[Evaluated(x)].container.image
      /\ log[x].op = "stop" =>
           /\ log[x - 1].op = "pull" /\ log[x - 1].res = "ok"
           /\ log[x].name = Flat(doc)[Evaluated(x)].container.name
      /\ log[x].op = "rm" =>
           /\ log[x - 1].op = "stop" /\ log[x - 1].res = "ok"
           /\ log[x].name = log[x - 1].name
      /\ log[x].op = "run" =>
           /\ log[x - 1].op = "rm" /\ log[x - 1].res = "ok"
           /\ log[x].name = log[x - 1].name
           /\ log[x].arg = log[x - 3].arg
      /\ (log[x].op \in {"pull", "stop", "rm"} /\ log[x].res = "ok") =>
           IF x < Len(log)
           THEN log[x + 1].op = (CASE log[x].op = "pull" -> "stop"
                                   [] log[x].op = "stop" -> "rm"
                                   [] log[x].op = "rm" -> "run")
           ELSE pc = (CASE log[x].op = "pull" -> "up_stop"
                        [] log[x].op = "stop" -> "up_remove"
                        [] log[x].op = "rm" -> "up_create")
      /\ (log[x].op \in UpgradeOps /\ log[x].res # "ok") =>
           \A y \in LogIdx : y > x => log[y].op \notin UpgradeOps

\* A drifted container went through all four steps.
C1_Witness ==
  /\ mode = "upgrade"
  /\ Len(log) >= 6
  /\ Last.op = "run" /\ Last.res = "ok"
  /\ log[Len(log) - 3].op = "pull"

\* C2 (as claimed): in `upgrade` without a target, a failed upgrade step for one
\* container is tolerated: the run still ends with status 0 and every container
\* later in the document is still evaluated by needs_upgrade.
C2_FailureIsolated ==
  (mode = "upgrade" /\ target = NoTarget /\ pc = "done") =>
    \A x \in LogIdx :
      (log[x].op \in UpgradeOps /\ log[x].res # "ok") =>
        /\ exit = 0
        /\ \A z \in FlatIdx :
             z > Evaluated(x) =>
               \E y \in LogIdx :
                 /\ y > x
                 /\ log[y].op = "container_exists"
                 /\ log[y].name = Flat(doc)[z].container.name

\* C3: needs_upgrade is false when the existence query says the container is
\* absent, and otherwise true exactly when the inspection fails or the image the
\* runtime holds for the container differs from the configured one.
C3_NeedsUpgradeDecision ==
  (mode = "upgrade" /\ Len(log) > 0) =>
    /\ (Last.op = "container_exists" /\ Last.res # "ok") => ~needs
    /\ Last.op = "inspect" =>
         needs = (IF Last.res = "ok"
                  THEN rt_containers[Last.name].image
                         # Flat(doc)[Evaluated(Len(log))].container.image
                  ELSE TRUE)
    /\ (Last.op = "container_exists" /\ ~rt_containers[Last.name].present) => ~needs

\* needs_upgrade answered false for an absent container and then true for one whose
\* inspection failed.
C3_Witness ==
  /\ mode = "upgrade"
  /\ Len(log) = 3
  /\ log[1].op = "container_exists" /\ log[1].res # "ok"
  /\ Last.op = "inspect" /\ Last.res # "ok" /\ needs

\* C4: `upgrade <name>` with a name that no container of the document has ends
\* with status 1 and issues no call at all.
C4_UnknownTarget ==
  (mode = "upgrade" /\ target # NoTarget /\ Named(target) = {}) =>
    /\ log = <<>>
    /\ pc \in {"load", "upgrade_begin", "done"}
    /\ pc = "done" => exit = 1

C4_Witness ==
  /\ mode = "upgrade" /\ target = "b" /\ doc = DocB
  /\ pc = "done" /\ exit = 1 /\ log = <<>>

\* C5: `upgrade <name>` evaluates the first definition named <name> and nothing
\* else: one needs_upgrade call, every call about that name, the decision taken
\* against that definition's image, and the pull and the recreation with that
\* definition's image and pod.
C5_FirstMatchOnly ==
  (mode = "upgrade" /\ target # NoTarget /\ Named(target) # {}) =>
    LET first == Flat(doc)[FirstNamed(target)]
    IN /\ Cardinality({x \in LogIdx : log[x].op = "container_exists"}) <= 1
       /\ Cardinality({x \in LogIdx : log[x].op = "run"}) <= 1
       /\ \A x \in LogIdx :
            /\ log[x].op # "pull" => log[x].name = target
            /\ log[x].op = "pull" => log[x].arg = first.container.image
            /\ log[x].op = "run" =>
                 log[x].pod = first.pod /\ log[x].arg = first.container.image
            /\ (log[x].op = "inspect" /\ x = Len(log)) =>
                 (pc = "up_pull") = (\/ log[x].res # "ok"
                                     \/ rt_containers[target].image # first.container.image)

\* The target is defined twice and was recreated in the pod of its first definition.
C5_Witness ==
  /\ mode = "upgrade" /\ target = "a" /\ doc = DocB
  /\ Len(log) > 0 /\ Last.op = "run" /\ Last.res = "ok" /\ Last.pod = "p1"
  /\ pc = "done" /\ exit = 0

CreateOps == {"pod_create", "run"}

PodIdx == 1..Len(doc.pods)

\* The create calls create_pod issues for pod p when all of them succeed.
CreateCalls(p) ==
  <<[op |-> "pod_create", pod |-> p.name, name |-> ""]>> \o
  [y \in 1..Len(p.containers) |-> [op |-> "run", pod |-> p.name, name |-> p.containers[y].name]]

PodNamed(n) == doc.pods[CHOOSE x \in PodIdx : doc.pods[x].name = n]

\* C6: in setup the existence answer for a pod alone decides its creation: after
\* "exists" no pod-create and no container-create call is issued for the pod, the
\* next call being the check of the next pod; after "does not exist" the calls that
\* follow are the pod-create and then the container-creates of its containers in
\* document order, each issued once the one before it succeeded, and all of them
\* present when setup gets past the pod.
C6_PodExistenceGatesCreation ==
  mode = "setup" =>
    \A x \in LogIdx :
      log[x].op = "pod_exists" =>
        LET p == PodNamed(log[x].pod)
            calls == CreateCalls(p)
            \* the calls of create_pod present in the log after the check
            made == {y \in 1..Len(calls) : x + y <= Len(log) /\ log[x + y].op \in CreateOps}
        IN IF log[x].res = "ok"
           THEN /\ \A y \in LogIdx : log[y].op \in CreateOps => log[y].pod # p.name
                /\ x < Len(log) => log[x + 1].op \in {"pod_exists", "pull"}
           ELSE /\ \A y \in made :
                     /\ log[x + y].op = calls[y].op
                     /\ log[x + y].pod = calls[y].pod
                     /\ log[x + y].name = calls[y].name
                     /\ y > 1 => (y - 1 \in made /\ log[x + y - 1].res = "ok")
                /\ Cardinality({y \in LogIdx : log[y].op \in CreateOps /\ log[y].pod = p.name})
                     = Cardinality(made)
                /\ (\E y \in LogIdx : y > x /\ log[y].op \notin CreateOps) =>
                     /\ made = 1..Len(calls)
                     /\ \A y \in made : log[x + y].res = "ok"
                /\ (x = Len(log) /\ pc # "done") => pc = "create_pod"

\* Setup found pod p1 of DocB existing without its container and issued no create
\* call for it, then found p2 absent and created it and its container.
C6_Witness ==
  /\ mode = "setup" /\ doc = DocB /\ pc = "pull"
  /\ Len(log) >= 4
  /\ log[Len(log) - 3].op = "pod_exists" /\ log[Len(log) - 3].pod = "p1"
  /\ log[Len(log) - 3].res = "ok"
  /\ log[Len(log) - 2].op = "pod_exists" /\ log[Len(log) - 2].pod = "p2"
  /\ log[Len(log) - 1].op = "pod_create" /\ log[Len(log) - 1].res = "ok"
  /\ Last.op = "run" /\ Last.pod = "p2" /\ Last.res = "ok"

\* The stop calls of stop_containers_and_pods over the whole document: every
\* container in document order, then every pod.
StopCalls ==
  [x \in FlatIdx |-> [op |-> "stop", pod |-> "", name |-> Flat(doc)[x].container.name]] \o
  [x \in PodIdx |-> [op |-> "pod_stop", pod |-> doc.pods[x].name, name |-> ""]]

\* C7 (as claimed): setup issues no stop call for a pod that existed when setup
\* checked it, nor for a container of such a pod.
C7_StopsOnlyCreated ==
  mode = "setup" =>
    \A x \in LogIdx :
      (log[x].op = "pod_exists" /\ log[x].res = "ok") =>
        \A y \in LogIdx :
          /\ log[y].op = "pod_stop" => log[y].pod # log[x].pod
          /\ log[y].op = "stop" =>
               \A z \in FlatIdx :
                 Flat(doc)[z].pod = log[x].pod => Flat(doc)[z].container.name # log[y].name

\* C7 (amended): the stop phase of setup covers the whole document, not only what
\* the run created: a setup that ends with status 0 has issued, as its last calls,
\* one stop call for every container of the document in document order and then
\* one for every pod, pods found existing and their containers included.
C7_StopsWholeDocument ==
  (mode = "setup" /\ pc = "done" /\ exit = 0) =>
    /\ Len(log) >= Len(StopCalls)
    /\ \A y \in 1..Len(StopCalls) :
         LET e == log[Len(log) - Len(StopCalls) + y]
         IN e.op = StopCalls[y].op /\ e.pod = StopCalls[y].pod /\ e.name = StopCalls[y].name
    /\ \A y \in 1..(Len(log) - Len(StopCalls)) : log[y].op \notin {"stop", "pod_stop"}

\* Setup ended with status 0 after finding a pod existing, whose stop succeeded.
C7_Witness ==
  /\ mode = "setup" /\ pc = "done" /\ exit = 0
  /\ \E x, y \in LogIdx :
       /\ log[x].op = "pod_exists" /\ log[x].res = "ok"
       /\ log[y].op = "pod_stop" /\ log[y].pod = log[x].pod /\ log[y].res = "ok"

\* The mount specs of the document that have a host side.
MountSpecs == {FlatMounts(doc)[y] : y \in {z \in 1..Len(FlatMounts(doc)) : split_once(FlatMounts(doc)[z]).some}}

\* C8: the phases of setup are ordered: when a create call is issued the data root
\* and the host path of every mount exist; the create call of a pod precedes the
\* create calls of its containers; no create call follows a pull; no pull follows a
\* stop call.
C8_SetupPhaseOrder ==
  mode = "setup" =>
    /\ (\E x \in LogIdx : log[x].op \in CreateOps) =>
         /\ Exists(doc.data_path)
         /\ \A m \in MountSpecs : Exists(doc.data_path \o split_once(m).local)
    /\ \A y \in LogIdx :
         log[y].op = "run" =>
           \E x \in 1..(y - 1) :
             log[x].op = "pod_create" /\ log[x].pod = log[y].pod /\ log[x].res = "ok"
    /\ \A x, y \in LogIdx :
         x < y =>
           /\ ~(log[x].op = "pull" /\ log[y].op \in CreateOps)
           /\ ~(log[x].op \in {"stop", "pod_stop"} /\ log[y].op = "pull")
           /\ ~(log[x].op \in CreateOps /\ log[y].op \in {"create_dir_all", "write"})

\* A setup that materialized paths, created a pod and a container, pulled and
\* reached the stop phase.
C8_Witness ==
  /\ mode = "setup" /\ pc = "stop_pod"
  /\ \E w, x, y, z \in LogIdx :
       /\ log[w].op = "write"
       /\ log[x].op = "run" /\ log[x].res = "ok"
       /\ log[y].op = "pull"
       /\ log[z].op = "stop"

\* Some call of the run that shows the runtime installed: a successful version
\* probe or a successful install command.
InstallShown ==
  \E x \in LogIdx : log[x].op \in {"version", "install"} /\ log[x].res = "ok"

\* C9: the installed flag, in the loaded Config and in the stored document, turns
\* from false to true only in a setup run whose version probe or install command
\* succeeded.
C9_InstalledFlagOnlyAfterSuccess ==
  [][ (\/ (pc # "load" /\ ~is_podman_installed /\ is_podman_installed')
       \/ (~(file.ok /\ file.installed) /\ file'.ok /\ file'.installed))
      => (mode = "setup" /\ InstallShown /\ log' = Append(log, Call("write_config", "", "", <<>>, "ok")))
    ]_vars

\* The flag was set and stored after a failed probe and a successful install.
C9_Witness ==
  /\ mode = "setup" /\ is_podman_installed /\ file.ok /\ file.installed
  /\ Len(log) = 4
  /\ log[1].op = "version" /\ log[1].res # "ok"
  /\ log[2].op = "apt_update" /\ log[3].op = "install" /\ log[3].res = "ok"
  /\ log[4].op = "write_config" /\ log[4].res = "ok"

\* The run's installation failed: the OS is not supported, or the package list
\* update or the install command did not succeed.
InstallFailed ==
  \/ os_type = "Unknown"
  \/ \E x \in LogIdx : log[x].op \in {"apt_update", "install"} /\ log[x].res # "ok"

\* C10: a failed installation ends setup with an error at once: exit status 1, the
\* flag false in memory and in the stored document, and no call after the failed
\* one (nothing written, materialized, logged in, created, pulled or stopped).
C10_InstallFailureIsFatal ==
  (mode = "setup" /\ InstallFailed) =>
    /\ pc = "done" /\ exit = 1
    /\ ~is_podman_installed
    /\ file.ok /\ ~file.installed
    /\ \A x \in LogIdx : log[x].op \in {"version", "apt_update", "install"}
    /\ \A x \in LogIdx : log[x].res # "ok" \/ (log[x].op = "apt_update" /\ x < Len(log))

\* The package list update failed on a Debian or Ubuntu host.
C10_Witness ==
  /\ mode = "setup" /\ pc = "done" /\ exit = 1
  /\ os_type \in {"Ubuntu", "Debian"}
  /\ Len(log) = 2 /\ Last.op = "apt_update" /\ Last.res # "ok"

\* The run could not launch one of its commands (Command::status returned Err).
SpawnFailed == \E x \in LogIdx : log[x].res = "ioerr"

\* C11 (as claimed): `start` without a name issues one pod-start call for every pod
\* of the document, in document order, and ends with status 0 whatever subset of
\* the start calls failed.
C11_StartAllAlwaysSucceeds ==
  (mode = "start" /\ target = NoTarget /\ pc = "done" /\ file.ok) =>
    /\ exit = 0
    /\ Len(log) = Len(doc.pods)
    /\ \A x \in LogIdx : log[x].op = "pod_start" /\ log[x].pod = doc.pods[x].name

\* C11 (amended): `start` without a name issues its pod-start calls for the pods of
\* the document in document order, one per pod; a start call that exits non-zero
\* is followed by the call for the next pod, and a run all of whose start commands
\* could be launched covers every pod and ends with status 0 whatever subset of
\* them exited non-zero; a start command that cannot be launched is the last call
\* of the run, which ends with status 1.
C11_StartAllToleratesExitStatus ==
  (mode = "start" /\ target = NoTarget) =>
    /\ Len(log) <= Len(doc.pods)
    /\ \A x \in LogIdx :
         /\ log[x].op = "pod_start" /\ log[x].pod = doc.pods[x].name /\ log[x].name = ""
         /\ log[x].res = "ioerr" => (x = Len(log) /\ pc = "done" /\ exit = 1)
         /\ (log[x].res # "ioerr" /\ x = Len(log) /\ x < Len(doc.pods)) =>
              (pc = "start_all" /\ i = x + 1)
    /\ (pc = "done" /\ file.ok /\ ~SpawnFailed) =>
         (exit = 0 /\ Len(log) = Len(doc.pods))

\* `start` ended with status 0 after the start of the first of two pods exited
\* non-zero and the start of the second succeeded.
C11_Witness ==
  /\ mode = "start" /\ target = NoTarget /\ pc = "done" /\ exit = 0
  /\ Len(log) = 2
  /\ log[1].res = "fail" /\ log[2].res = "ok"

\* The document has a pod of the name given on the command line.
KnownPod == \E x \in PodIdx : doc.pods[x].name = target

\* C12: `start <pod>` and `stop <pod>` with a name that no pod of the document has
\* end with status 1 without any call; with the name of a pod they issue exactly
\* one call, the pod start (pod stop) of that pod, and end with status 0 if it
\* succeeded and with status 1 if it failed.
C12_NamedPodStartStop ==
  (mode \in {"start", "stop"} /\ target # NoTarget) =>
    /\ Len(log) <= 1
    /\ ~KnownPod =>
         /\ log = <<>>
         /\ pc = "done" => exit = 1
    /\ \A x \in LogIdx :
         /\ log[x].op = (IF mode = "start" THEN "pod_start" ELSE "pod_stop")
         /\ log[x].pod = target
         /\ log[x].name = ""
         /\ pc = "done"
         /\ exit = (IF log[x].res = "ok" THEN 0 ELSE 1)
    /\ (KnownPod /\ pc = "done" /\ file.ok) => Len(log) = 1

\* `stop p2` found the pod in the document, its stop call failed and the run ended
\* with status 1.
C12_Witness ==
  /\ mode = "stop" /\ target = "p2" /\ doc = DocB
  /\ pc = "done" /\ exit = 1
  /\ Len(log) = 1 /\ log[1].op = "pod_stop" /\ log[1].res # "ok"

StopOps == {"stop", "pod_stop"}

\* The stop calls the run has issued so far.
Stopped == {x \in LogIdx : log[x].op \in StopOps}

\* stop_containers_and_pods is running or has run: `stop` without a name once the
\* document is loaded, setup once its first stop call is issued.
InStopAll ==
  \/ mode = "stop" /\ target = NoTarget /\ file.ok /\ pc \in {"stop_container", "stop_pod", "done"}
  \/ mode = "setup" /\ Stopped # {}

\* C13 (as claimed): `stop` without a name and the stop phase of setup issue one
\* stop call for every container and then one for every pod, and end with status
\* 0, whatever subset of the stop calls failed.
C13_StopAllAlwaysSucceeds ==
  (InStopAll /\ pc = "done") =>
    /\ exit = 0
    /\ Cardinality(Stopped) = Len(StopCalls)

\* C13 (amended): the stop calls of `stop` without a name and of setup's stop phase
\* are the last calls of the run and follow the document: every container in
\* document order, then every pod, so that every container stop precedes every
\* pod stop; a stop call that exits non-zero is followed by the next stop call,
\* and a run all of whose stop commands could be launched issues them all and ends
\* with status 0; a stop command that cannot be launched is the last call of the
\* run, which ends with status 1.
C13_StopAllToleratesExitStatus ==
  InStopAll =>
    LET n == Cardinality(Stopped)
        first == Len(log) - n
    IN /\ n <= Len(StopCalls)
       /\ \A y \in 1..n :
            /\ log[first + y].op = StopCalls[y].op
            /\ log[first + y].pod = StopCalls[y].pod
            /\ log[first + y].name = StopCalls[y].name
            /\ log[first + y].res = "ioerr" => (y = n /\ pc = "done" /\ exit = 1)
            /\ (log[first + y].res # "ioerr" /\ y = n /\ n < Len(StopCalls)) =>
                 pc = (IF n < Len(Flat(doc)) THEN "stop_container" ELSE "stop_pod")
       /\ \A x, y \in LogIdx :
            (log[x].op = "stop" /\ log[y].op = "pod_stop") => x < y
       /\ (pc = "done" /\ ~(n > 0 /\ Last.res = "ioerr")) =>
            (exit = 0 /\ n = Len(StopCalls))

\* `stop` ended with status 0 although a container stop and a pod stop exited
\* non-zero; every container and the pod received its stop call.
C13_Witness ==
  /\ mode = "stop" /\ target = NoTarget /\ doc = DocA /\ pc = "done" /\ exit = 0
  /\ Len(log) = 3
  /\ log[1].op = "stop" /\ log[1].res = "fail"
  /\ log[2].op = "stop" /\ log[2].res = "ok"
  /\ log[3].op = "pod_stop" /\ log[3].res = "fail"

\* The port specs declared by the containers of a pod, whatever their order and
\* however often they are declared.
DeclaredPorts(p) ==
  {q \in PortSpecs :
     \E x \in 1..Len(p.containers) : \E y \in 1..Len(p.containers[x].ports) :
       p.containers[x].ports[y] = q}

\* How often port spec q is published by the pod-create call e.
Published(e, q) == Cardinality({z \in 1..Len(e.arg) : e.arg[z] = q})

\* C14: a pod-create call publishes every port spec declared by a container of the
\* pod exactly once and nothing else, duplicates within a container or across
\* containers collapsed; two pods that declare the same port specs in different
\* orders publish the same set.
C14_PodPortsAreUnion ==
  /\ mode = "setup" =>
       \A x \in LogIdx :
         log[x].op = "pod_create" =>
           /\ \A q \in DeclaredPorts(PodNamed(log[x].pod)) : Published(log[x], q) = 1
           /\ \A z \in 1..Len(log[x].arg) : log[x].arg[z] \in DeclaredPorts(PodNamed(log[x].pod))
  /\ \A x \in PodIdx : \A d \in Docs : \A y \in 1..Len(d.pods) :
       DeclaredPorts(doc.pods[x]) = DeclaredPorts(d.pods[y])
         => port_args(doc.pods[x]) = port_args(d.pods[y])

\* The pod of DocA, whose containers declare 80:80 twice and 81:81 once, was
\* created publishing 81:81 and 80:80 once each.
C14_Witness ==
  /\ mode = "setup" /\ doc = DocA
  /\ Len(log) > 0 /\ Last.op = "pod_create" /\ Last.res = "ok"
  /\ Last.arg = <<"81:81", "80:80">>

\* The image references of the document.
DocImages == {Flat(doc)[x].container.image : x \in FlatIdx}

Pulls == {x \in LogIdx : log[x].op = "pull"}

\* setup is past its pull phase.
PullPhaseDone ==
  mode = "setup" /\ (pc \in {"stop_container", "stop_pod"} \/ (pc = "done" /\ exit = 0))

\* C15 (as claimed): the pull phase of setup issues pull calls for exactly the
\* image references of the document, one call per distinct reference.
C15_PullsEachImageOnce ==
  PullPhaseDone =>
    /\ {log[x].arg : x \in Pulls} = DocImages
    /\ Cardinality(Pulls) = Cardinality(DocImages)

\* Calls whose non-zero exit is an answer, not a failure.
Queries == {"version", "login_status", "pod_exists"}

\* Nothing failed in the run but pulls.
OnlyPullsFailed ==
  \A x \in LogIdx : log[x].res # "ok" => log[x].op \in Queries \cup {"pull"}

\* The run ended with every stop call of the document as its last calls.
EndsWithStopCalls ==
  /\ Len(log) >= Len(StopCalls)
  /\ \A y \in 1..Len(StopCalls) :
       log[Len(log) - Len(StopCalls) + y].op = StopCalls[y].op

\* C16 (as claimed): a setup run in which nothing fails but pulls still pulls for
\* every container, runs the whole stop phase and ends with status 0.
C16_FailedPullAlwaysTolerated ==
  (mode = "setup" /\ pc = "done" /\ OnlyPullsFailed /\ \E x \in Pulls : log[x].res # "ok") =>
    /\ exit = 0
    /\ Cardinality(Pulls) = Len(Flat(doc))
    /\ EndsWithStopCalls

\* C16 (amended): in setup's pull phase a pull that exits non-zero is followed by
\* the pull for the next container, or by the stop phase after the last one; a
\* run in which nothing fails but pulls, all of which could be launched, has
\* pulled for every container, issued every stop call and ended with status 0; a
\* pull command that cannot be launched is the last call of the run, which ends
\* with status 1.
C16_PullToleratesExitStatus ==
  mode = "setup" =>
    /\ \A x \in Pulls :
         LET n == Cardinality({y \in Pulls : y <= x})
         IN /\ n <= Len(Flat(doc))
            /\ log[x].arg = Flat(doc)[n].container.image
            /\ log[x].res = "ioerr" => (x = Len(log) /\ pc = "done" /\ exit = 1)
            /\ (log[x].res # "ioerr" /\ x = Len(log)) =>
                 pc = (IF n < Len(Flat(doc)) THEN "pull" ELSE "stop_container")
    /\ (pc = "done" /\ OnlyPullsFailed /\ ~SpawnFailed /\ Pulls # {}) =>
         /\ exit = 0
         /\ Cardinality(Pulls) = Len(Flat(doc))
         /\ EndsWithStopCalls

\* Setup ended with status 0 after the first of two pulls exited non-zero: the
\* second image was pulled and the containers and the pod were stopped.
C16_Witness ==
  /\ mode = "setup" /\ doc = DocA /\ pc = "done" /\ exit = 0
  /\ OnlyPullsFailed
  /\ \E x \in Pulls :
       /\ log[x].res = "fail" /\ log[x + 1].op = "pull" /\ log[x + 1].res = "ok"
       /\ Len(log) = x + 1 + Len(StopCalls)

Logins == {x \in LogIdx : log[x].op = "login"}

\* C17: in setup a login call is issued only when a registry, a username and a
\* password are all configured and directly after a login-status query for that
\* registry that did not report an authenticated session; after a status query
\* that reported one, and when the registry, the username or the password is
\* missing, the run issues no login call.
C17_LoginOnlyWhenNeeded ==
  mode = "setup" =>
    /\ Cardinality(Logins) <= 1
    /\ \A x \in Logins :
         /\ doc.private_registry.some /\ doc.registry_username.some /\ doc.registry_password.some
         /\ log[x].name = doc.private_registry.val
         /\ x > 1
         /\ log[x - 1].op = "login_status" /\ log[x - 1].res # "ok"
         /\ log[x - 1].name = doc.private_registry.val
    /\ \A x \in LogIdx :
         (log[x].op = "login_status" /\ log[x].res = "ok") => Logins = {}
    /\ (~doc.private_registry.some \/ ~doc.registry_username.some \/ ~doc.registry_password.some)
         => \A x \in LogIdx : log[x].op \notin {"login", "login_status"}

\* The status query reported no session for the configured registry and the login
\* call followed.
C17_Witness ==
  /\ mode = "setup" /\ doc = DocA
  /\ Len(log) >= 2 /\ Last.op = "login" /\ Last.name = "reg"
  /\ log[Len(log) - 1].op = "login_status" /\ log[Len(log) - 1].res = "fail"

\* Nothing failed in the run but the registry login.
OnlyLoginFailed ==
  \A x \in LogIdx : log[x].res # "ok" => log[x].op \in Queries \cup {"login"}

\* C18: a failed registry login does not end setup: whatever the login call
\* returned, the next step is the existence check of the first pod (the pull
\* phase for a document without pods), and a run in which nothing else fails has
\* pulled for every container, issued every stop call and ended with status 0.
C18_LoginFailureIsWarning ==
  mode = "setup" =>
    \A x \in Logins :
      /\ x = Len(log) =>
           /\ exit = -1
           /\ IF Len(doc.pods) > 0 THEN pc = "pod_exists" /\ i = 1
              ELSE pc \in {"pull", "stop_container", "stop_pod"}
      /\ (x < Len(log) /\ Len(doc.pods) > 0) =>
           (log[x + 1].op = "pod_exists" /\ log[x + 1].pod = doc.pods[1].name)
      /\ (pc = "done" /\ OnlyLoginFailed) =>
           /\ exit = 0
           /\ Cardinality(Pulls) = Len(Flat(doc))
           /\ EndsWithStopCalls

\* Setup ended with status 0 after its login call failed: the pod was checked, the
\* images pulled and everything stopped.
C18_Witness ==
  /\ mode = "setup" /\ doc = DocA /\ pc = "done" /\ exit = 0
  /\ OnlyLoginFailed
  /\ \E x \in Logins : log[x].res = "fail" /\ log[x + 1].op = "pod_exists"
  /\ Cardinality(Pulls) = 2

\* The host path of every mount spec of the document exists.
Materialized == \A m \in MountSpecs : Exists(doc.data_path \o split_once(m).local)

\* C19: create_mount_paths is idempotent: when it has returned Ok the host path of
\* every mount spec exists, and run on such a filesystem it changes nothing,
\* issues no filesystem call and returns no error; and in any run no file or
\* directory is removed or emptied, and every directory creation and file write
\* is for a path that did not exist.
C19_MaterializationIdempotent ==
  /\ [](pc = "registry" => Materialized)
  /\ [][ (pc \in {"mount", "mount_file"} /\ Materialized)
           => (fs' = fs /\ log' = log /\ pc' # "done") ]_vars
  /\ [][ /\ fs \subseteq fs'
         /\ Len(log') > Len(log) => ~Exists(log'[Len(log')].arg) ]_vars

\* create_mount_paths returned Ok without any filesystem call for a document with
\* a file mount and a directory mount: the directory was made by an earlier run,
\* the file with its content was there before and is still there.
C19_Witness ==
  /\ doc = MountDoc(<<MountConf, MountDir>>)
  /\ pc = "registry" /\ log = <<>>
  /\ Data(DataPath \o <<"/", "cfg", "/", "app", ".", "conf">>) \in fs
  /\ Dir(DataPath \o <<"/", "data">>) \in fs

\* The local segment of mount spec m and its host path.
LocalOf(m) == split_once(m).local

HostPath(m) == doc.data_path \o LocalOf(m)

\* A local segment with a listed extension: its last two tokens are a dot and one
\* of conf, log, txt, json, yaml, yml.
HasListedExtension(l) ==
  /\ \E x \in 1..Len(l) : l[x] = "."
  /\ Len(l) >= 2
  /\ l[Len(l) - 1] = "."
  /\ l[Len(l)] \in {"conf", "log", "txt", "json", "yaml", "yml"}

ContainerOf(e) ==
  LET p == PodNamed(e.pod)
  IN p.containers[CHOOSE y \in 1..Len(p.containers) : p.containers[y].name = e.name]

\* The host side of a mount argument as the runtime reads it: the text before the
\* first ':'.
HostSide(v) == SubSeq(v, 1, IndexFrom(v, ":", 1) - 1)

Runs == {x \in LogIdx : log[x].op = "run"}

\* The mounts of run call x that have the form "local:container".
Mounted(x) ==
  {y \in 1..Len(ContainerOf(log[x]).mounts) : Contains(ContainerOf(log[x]).mounts[y], ":")}

\* C21 (as claimed): the host side of every mount argument passed to the runtime on
\* container creation is a path that path materialization created or found
\* existing: it exists when the container is created.
C21_HostSideMaterialized ==
  \A x \in Runs : \A y \in Mounted(x) : Exists(HostSide(log[x].vols[y]))

\* C21 (amended): every path create_mount_paths creates is the data root followed
\* by the local segment of a mount spec (or the parent of that for a file), and a
\* container creation, in setup and in upgrade, passes one mount argument per mount
\* spec, for "local:container" the data root followed by local, ':' and
\* container, so that its host side is the path create_mount_paths makes for the
\* spec; in setup that path exists when the container is created, while upgrade
\* recreates a container without any path materialization.
C21_MountArguments ==
  /\ \A x \in Runs :
       /\ Len(log[x].vols) = Len(ContainerOf(log[x]).mounts)
       /\ \A y \in Mounted(x) :
            LET m == ContainerOf(log[x]).mounts[y]
            IN /\ log[x].vols[y] = doc.data_path \o m
               /\ HostSide(log[x].vols[y]) = HostPath(m)
               /\ mode = "setup" => Exists(HostPath(m))
  /\ \A x \in LogIdx :
       log[x].op \in {"create_dir_all", "write"} =>
         \/ log[x].arg = doc.data_path
         \/ \E m \in MountSpecs : log[x].arg \in {HostPath(m), Parent(HostPath(m))}
  /\ mode = "upgrade" => \A x \in LogIdx : log[x].op \notin {"create_dir_all", "write"}

\* Setup created container a of DocB's pod p1 with the mount argument
\* "/srvrel:/r:ro", whose host side it had made as a directory.
C21_Witness ==
  /\ mode = "setup" /\ doc = DocB
  /\ Len(log) > 0 /\ Last.op = "run" /\ Last.res = "ok" /\ Last.pod = "p1"
  /\ Last.vols = << <<"/", "srv", "rel", ":", "/", "r", ":", "ro">> >>
  /\ Dir(<<"/", "srv", "rel">>) \in fs

\* The positional arguments of the command line: what follows `--config <path>`
\* if the line begins with it, the whole line otherwise.
Positional ==
  IF Len(argv) >= 2 /\ argv[1] = "--config" THEN SubSeq(argv, 3, Len(argv)) ELSE argv

\* The invocation has no mode, too many positional arguments, a word that is no
\* mode in the place of the mode, or `setup` followed by a name.
InvalidInvocation ==
  \/ Len(Positional) < 1
  \/ Len(Positional) > 2
  \/ Positional[1] \notin {"setup", "upgrade", "start", "stop"}
  \/ (Positional[1] = "setup" /\ Len(Positional) = 2)

\* C22 (as claimed): an invocation with an invalid mode, a wrong number of
\* arguments, a name after `setup` or no mode ends with status 1 and the usage
\* printed, without a mode driver loading the configuration and without any call.
C22_InvalidInvocationPrintsUsage ==
  (pc # "idle" /\ InvalidInvocation) =>
    /\ pc = "done" /\ exit = 1
    /\ usage
    /\ log = <<>>
    /\ ~is_podman_installed

\* The steps of setup after check_and_install_podman.
LaterPcs ==
  {"data_path", "mount", "mount_file", "registry", "login", "pod_exists", "create_pod",
   "create_container", "pull", "stop_container", "stop_pod"}

\* The calls of those steps.
LaterOps ==
  {"create_dir_all", "write", "login_status", "login", "pod_exists", "pod_create", "run",
   "pull", "stop", "pod_stop"}

ConfigWrites == {x \in LogIdx : log[x].op = "write_config"}

\* C23: setup writes the document at most once, before any later step; when the
\* write succeeded the flag is set in memory and in the stored document before
\* data-root materialization begins and while every later step runs; when it
\* failed it is the last call of the run, which ends with status 1 with the flag
\* in memory still false and nothing materialized, logged in, created, pulled or
\* stopped.
C23_FlagStoredBeforeLaterSteps ==
  mode = "setup" =>
    /\ Cardinality(ConfigWrites) <= 1
    /\ \A x \in ConfigWrites :
         /\ \A y \in 1..(x - 1) : log[y].op \in {"version", "apt_update", "install"}
         /\ log[x].res = "ok" =>
              (is_podman_installed /\ file.ok /\ file.installed)
         /\ log[x].res # "ok" =>
              /\ x = Len(log)
              /\ pc = "done" /\ exit = 1
              /\ ~is_podman_installed
    /\ (pc \in LaterPcs \/ \E y \in LogIdx : log[y].op \in LaterOps) =>
         (is_podman_installed /\ file.ok /\ file.installed)
    /\ (is_podman_installed /\ ConfigWrites # {}) => (file.ok /\ file.installed)

\* The probe found the runtime, the document was written with the flag set, and
\* the data root was created after that.
C23_Witness ==
  /\ mode = "setup" /\ Len(log) = 3
  /\ log[1].op = "version" /\ log[1].res = "ok"
  /\ log[2].op = "write_config" /\ log[2].res = "ok"
  /\ log[3].op = "create_dir_all" /\ log[3].res = "ok"
  /\ is_podman_installed /\ file.installed

\* C24: in setup a failed pod-create or container-create call is the last call of
\* the run: it is not issued again, no further container is created, no further
\* pod is checked or created, nothing is pulled or stopped, and the run ends with
\* status 1.
C24_FailedCreateAbortsSetup ==
  mode = "setup" =>
    \A x \in LogIdx :
      (log[x].op \in CreateOps /\ log[x].res # "ok") =>
        /\ x = Len(log)
        /\ pc = "done" /\ exit = 1
        /\ \A y \in 1..(x - 1) :
             ~(log[y].op = log[x].op /\ log[y].pod = log[x].pod /\ log[y].name = log[x].name)
        /\ \A y \in LogIdx : log[y].op \notin {"pull", "stop", "pod_stop"}

\* The pod of DocA and its first container were created, the creation of its
\* second container failed and setup ended there with status 1.
C24_Witness ==
  /\ mode = "setup" /\ doc = DocA /\ pc = "done" /\ exit = 1
  /\ Len(log) >= 3
  /\ log[Len(log) - 2].op = "pod_create" /\ log[Len(log) - 2].res = "ok"
  /\ log[Len(log) - 1].op = "run" /\ log[Len(log) - 1].name = "a" /\ log[Len(log) - 1].res = "ok"
  /\ Last.op = "run" /\ Last.name = "b" /\ Last.res = "fail"

\* Every step of the run succeeded: each call exited 0, but for an existence query
\* that answered "no" about a container that is absent.
AllStepsSucceeded ==
  \A x \in LogIdx :
    \/ log[x].res = "ok"
    \/ log[x].op = "container_exists" /\ ~rt_containers[log[x].name].present

\* Every definition of the document whose container exists at the runtime has
\* the image the runtime reports for it.
Converged ==
  \A x \in FlatIdx :
    LET c == Flat(doc)[x].container
    IN rt_containers[c.name].present => rt_containers[c.name].image = c.image

\* C25 (as claimed): after an `upgrade` run over the whole document in which
\* every issued step succeeded, every container of the document that exists at
\* the runtime is observed with its configured image, so that the next `upgrade`
\* run finds no drift and issues queries only.
C25_UpgradeConverges ==
  (mode = "upgrade" /\ target = NoTarget /\ pc = "done" /\ exit = 0 /\ AllStepsSucceeded) =>
    Converged

\* The run's last call is a failed create that follows the successful pull, stop
\* and remove of the same container.
CreateFailedAfterRemove ==
  /\ mode = "upgrade" /\ Len(log) >= 4
  /\ Last.op = "run" /\ Last.res # "ok"
  /\ log[Len(log) - 1].op = "rm" /\ log[Len(log) - 1].res = "ok"
  /\ log[Len(log) - 1].name = Last.name
  /\ log[Len(log) - 2].op = "stop" /\ log[Len(log) - 2].res = "ok"
  /\ log[Len(log) - 3].op = "pull" /\ log[Len(log) - 3].res = "ok"

\* C26: upgrade has no rollback. A create that fails after the successful pull,
\* stop and remove leaves the container absent and ends the run with status 1;
\* in every upgrade run the existence query about an absent container answers
\* "no", needs_upgrade decides false and the runtime is left as it is; and a
\* container comes into existence at the runtime only by the successful create
\* that directly follows the successful remove of that container in the same
\* run, so an upgrade run never creates a container that was absent when it
\* began.
C26_NoRollback ==
  [][/\ CreateFailedAfterRemove' =>
          (pc' = "done" /\ exit' = 1 /\ ~rt_containers'[Last'.name].present)
     /\ (pc = "needs_exists" /\ ~rt_containers[Cur.container.name].present) =>
          /\ Last'.op = "container_exists" /\ Last'.res = "fail"
          /\ needs' = FALSE
          /\ pc' \in {"needs_exists", "done"}
          /\ rt_containers' = rt_containers
     /\ \A n \in ContainerNames :
          (~rt_containers[n].present /\ rt_containers'[n].present) =>
            /\ pc = "up_create" /\ Len(log) >= 1
            /\ Last.op = "rm" /\ Last.res = "ok" /\ Last.name = n
            /\ Last'.op = "run" /\ Last'.res = "ok" /\ Last'.name = n
            /\ Len(log') = Len(log) + 1]_vars

\* Container a was pulled, stopped and removed, its creation failed, and the run
\* ended with status 1 and a absent.
C26_Witness ==
  /\ CreateFailedAfterRemove /\ Last.name = "a"
  /\ pc = "done" /\ exit = 1
  /\ ~rt_containers["a"].present

\* The names of the containers that the runtime holds in pod p.
ContainersIn(p) ==
  {n \in ContainerNames : rt_containers[n].present /\ rt_containers[n].pod = p}

\* The names of the containers created in pod p by the calls before entry x.
CreatedBefore(p, x) ==
  {log[y].name : y \in {z \in 1..(x - 1) :
                          log[z].op = "run" /\ log[z].res = "ok" /\ log[z].pod = p}}

\* The run's last call is a failed container-create.
CreateFailed ==
  mode = "setup" /\ Len(log) >= 1 /\ Last.op = "run" /\ Last.res # "ok"

\* After a failed container-create the run has ended with status 1, and the pod,
\* created by this run, exists and holds exactly the containers created before
\* the failure.
PartialPodLeft ==
  CreateFailed =>
    /\ pc = "done" /\ exit = 1
    /\ Last.pod \in rt_pods
    /\ \E y \in 1..(Len(log) - 1) :
         log[y].op = "pod_create" /\ log[y].res = "ok" /\ log[y].pod = Last.pod
    /\ ContainersIn(Last.pod) = CreatedBefore(Last.pod, Len(log))
    /\ Last.name \notin ContainersIn(Last.pod)

\* C27: a container-create that fails in setup ends the run with status 1 and
\* leaves the pod, created by this run, in existence, holding exactly the
\* containers created before the failure; a setup run that comes to a pod
\* existing at the runtime leaves it and the runtime as they are, going on to
\* the next pod when pod_exists answers yes and ending with status 1 on the
\* failed pod-create when it answers no; and in setup a container comes into
\* existence only in a pod that the same run has created, and a pod only by a
\* pod-create while it does not exist, so that no setup run adds a container
\* to a pod that existed when the run began.
C27_PartialPodIsNeverCompleted ==
  [][/\ PartialPodLeft'
     /\ (mode = "setup" /\ pc = "pod_exists" /\ doc.pods[i].name \in rt_pods) =>
          /\ rt_pods' = rt_pods /\ rt_containers' = rt_containers
          /\ Last'.op = "pod_exists"
          /\ Last'.res = "ok" => pc' \notin {"create_pod", "create_container"}
          /\ Last'.res # "ok" => (pc' = "create_pod" /\ i' = i)
     /\ (mode = "setup" /\ pc = "create_pod" /\ doc.pods[i].name \in rt_pods) =>
          /\ rt_pods' = rt_pods /\ rt_containers' = rt_containers
          /\ Last'.op = "pod_create" /\ Last'.res # "ok"
          /\ pc' = "done" /\ exit' = 1
     /\ (mode = "setup" /\ mode' = "setup") =>
          /\ \A n \in ContainerNames :
               rt_containers'[n] # rt_containers[n] =>
                 /\ pc = "create_container" /\ ~rt_containers[n].present
                 /\ Last'.op = "run" /\ Last'.res = "ok" /\ Last'.name = n
                 /\ rt_containers'[n].pod = Last'.pod
                 /\ \E y \in LogIdx :
                      log[y].op = "pod_create" /\ log[y].res = "ok" /\ log[y].pod = Last'.pod
          /\ rt_pods' # rt_pods =>
               /\ pc = "create_pod" /\ doc.pods[i].name \notin rt_pods
               /\ rt_pods' = rt_pods \cup {doc.pods[i].name}
               /\ Last'.op = "pod_create" /\ Last'.res = "ok"]_vars

\* Setup created pod p1 of DocC and its container b, the creation of a failed,
\* and the run ended with status 1, the pod holding b alone.
C27_Witness ==
  /\ CreateFailed /\ doc = DocC /\ pc = "done" /\ exit = 1
  /\ Last.name = "a" /\ Last.pod = "p1"
  /\ "p1" \in rt_pods
  /\ ContainersIn("p1") = {"b"}
  /\ ~rt_containers["a"].present

\* The calls of check_and_install_podman.
InstallCheckOps == {"version", "apt_update", "install", "write_config"}

\* C28: a setup run that loads a document whose installed flag is true takes the
\* flag as loaded and goes from check_and_install_podman straight to the
\* data-root materialization: no version probe, no OS detection, no install
\* command and no write of the document are made in the run, whatever a probe
\* would have answered, and the flag in memory and the stored document stay as
\* they were.
C28_SetFlagSkipsInstallCheck ==
  [][/\ (mode = "setup" /\ pc = "load" /\ file.ok /\ file.installed) =>
          (is_podman_installed' /\ pc' = "check_install" /\ log' = <<>> /\ file' = file)
     /\ (mode = "setup" /\ pc = "check_install" /\ is_podman_installed) =>
          /\ pc' = "data_path"
          /\ log' = log /\ log = <<>>
          /\ file' = file /\ file.ok /\ file.installed
          /\ is_podman_installed'
          /\ os_type' = os_type /\ os_type = ""
          /\ doc' = doc /\ fs' = fs
     /\ (mode = "setup" /\ pc # "done" /\ is_podman_installed /\ ConfigWrites = {}) =>
          /\ \A x \in 1..Len(log') : log'[x].op \notin InstallCheckOps
          /\ os_type' = ""
          /\ file' = file /\ file'.ok /\ file'.installed
          /\ is_podman_installed']_vars

\* Setup loaded a document with the flag set and stands at the data-root
\* materialization without having made any call.
C28_Witness ==
  /\ mode = "setup" /\ pc = "data_path"
  /\ is_podman_installed /\ file.ok /\ file.installed
  /\ log = <<>> /\ os_type = ""

====
